---- MODULE Spec2Model ----
(***************************************************************************)
(* Model of WaterAlarm (src/main.py): the polling loop that requests the   *)
(* sensor's status once per outer cycle of 12 ticks, drains the modem's    *)
(* inbox every tick, debounces water-positive replies, escalates missing   *)
(* replies, drives the three relay lights and alerts the operators.        *)
(***************************************************************************)
EXTENDS Integers, Sequences, FiniteSets

(* ------------------------------------------------------------------ *)
(* Configuration (the constructor's arguments)                          *)
(* ------------------------------------------------------------------ *)

\* range(12) in mainloop and the comparison self.missing_loops == 12
cycle_length == 12

\* the number the sensor answers from, and some other sender
phone_number == "sensor"
other_number == "stranger"

\* the operators alerted by alert_humans, in list order
alert_numbers == <<"op1", "op2">>

water_message == "1"
no_water_message == "0"
unknown_text == "?"

\* values of disconnect_time the constructor lets through (multiples of 2)
DisconnectTimes == {2, 10}
\* values of water_time the model runs with
WaterTimes == {2, 4}

\* Bounds of the model
MaxMissing == 7     \* cap on missing_responses (silent outer cycles in a row)
MaxStreak == 3      \* cap on times_water_detected
MaxDrain == 2       \* most messages one listStoredSms call returns

Numbers == {phone_number, other_number}
Texts == {water_message, no_water_message, unknown_text}
\* a stranger's text is only printed, so one text stands for all of them
Messages ==
    [number : {phone_number}, text : Texts]
        \cup [number : {other_number}, text : {unknown_text}]

\* the results listStoredSms can return when it is not empty
Drains == UNION {[1..n -> Messages] : n \in 1..MaxDrain}

\* the operators as a set
Operators == {alert_numbers[k] : k \in DOMAIN alert_numbers}

VARIABLES
    disconnect_time,        \* self.disconnect_time
    water_time,             \* self.water_time
    missing_loops,          \* self.missing_loops
    missing_responses,      \* self.missing_responses
    awaiting_message,       \* self.awaiting_message
    times_water_detected,   \* self.times_water_detected
    water,                  \* self.water
    relay,                  \* the relay board's outputs [red, amber, green]
    pc,                     \* position of mainloop
    i,                      \* the for loop's index
    inbox,                  \* messages of the current drain still to be parsed
    sent,                   \* sendSms calls of the last step: <<number, what, ok>>
    lit                     \* light() calls of the last step

vars == <<disconnect_time, water_time, missing_loops, missing_responses,
          awaiting_message, times_water_detected, water, relay, pc, i,
          inbox, sent, lit>>

(* ------------------------------------------------------------------ *)
(* The object as a record, so that the methods are operators on it      *)
(* ------------------------------------------------------------------ *)

Self ==
    [missing_loops |-> missing_loops,
     missing_responses |-> missing_responses,
     awaiting_message |-> awaiting_message,
     times_water_detected |-> times_water_detected,
     water |-> water,
     relay |-> relay,
     sent |-> <<>>,
     lit |-> <<>>,
     fault |-> 0,
     raised |-> FALSE]

\* An exception no try block of the methods catches: s.raised. Once it is
\* set the rest of the step is skipped. s.fault = k > 0 makes the k-th call
\* of the relay board from here raise; with s.fault = 0, as in every step of
\* Spec, the relay board answers every call.
relay_call(s) ==
    IF s.raised
    THEN s
    ELSE IF s.fault = 1
    THEN [s EXCEPT !.raised = TRUE, !.fault = 0]
    ELSE [s EXCEPT !.fault = IF @ > 0 THEN @ - 1 ELSE 0]

\* relay_board.on / relay_board.off
relay_on(s, name) ==
    LET c == relay_call(s)
    IN IF c.raised THEN c ELSE [c EXCEPT !.relay[name] = TRUE]
relay_off(s, name) ==
    LET c == relay_call(s)
    IN IF c.raised THEN c ELSE [c EXCEPT !.relay[name] = FALSE]

\* exception_handler: asks for the amber relay's status and flashes the
\* amber light unless it is lit already
exception_handler(s) ==
    LET q == relay_call(s)
    IN IF q.raised
       THEN q
       ELSE IF ~q.relay["amber"]
       THEN relay_off(relay_on(q, "amber"), "amber")
       ELSE q

\* send_message: sendSms, a failure is caught and handed to exception_handler
send_message(s, number, what, ok) ==
    IF s.raised
    THEN s
    ELSE LET logged == [s EXCEPT !.sent = Append(@, <<number, what, ok>>)]
         IN IF ok THEN logged ELSE exception_handler(logged)

\* alert_humans: one message per operator, in list order
RECURSIVE alert_from(_, _, _, _)
alert_from(s, event, failed, k) ==
    IF k > Len(alert_numbers)
    THEN s
    ELSE alert_from(send_message(s, alert_numbers[k], event,
                                 alert_numbers[k] \notin failed),
                    event, failed, k + 1)

alert_humans(s, event, failed) == alert_from(s, event, failed, 1)

\* light, were its "red" branch to leave the amber relay alone
light_keeps_amber(s, l) ==
    LET called == [s EXCEPT !.lit = Append(@, l)]
    IN CASE l = "red" ->
              relay_on(relay_off(called, "green"), "red")
         [] l = "amber" ->
              relay_on(relay_off(called, "green"), "amber")
         [] l = "green" ->
              relay_on(relay_off(relay_off(called, "amber"), "red"), "green")
         [] OTHER -> called

\* light
light(s, l) ==
    LET called == IF s.raised THEN s ELSE [s EXCEPT !.lit = Append(@, l)]
    IN CASE l = "red" ->
              relay_on(relay_off(relay_off(called, "amber"), "green"), "red")
         [] l = "amber" ->
              relay_on(relay_off(called, "green"), "amber")
         [] l = "green" ->
              relay_on(relay_off(relay_off(called, "amber"), "red"), "green")
         [] OTHER -> called

\* update_status, were the water branch to start one reply late
update_status_late(s, wt, failed) ==
    IF s.times_water_detected = 0
    THEN LET g == light(s, "green")
             a == IF g.water THEN alert_humans(g, "removed", failed) ELSE g
         IN [a EXCEPT !.water = FALSE]
    ELSE IF 0 < s.times_water_detected /\ 2 * s.times_water_detected <= wt
    THEN s
    ELSE LET r == light(s, "red")
             a == alert_humans(r, "water", failed)
         IN [a EXCEPT !.water = TRUE]

\* update_status, were "removed" sent without looking at self.water
update_status_removed_always(s, wt, failed) ==
    IF s.times_water_detected = 0
    THEN LET g == light(s, "green")
             a == alert_humans(g, "removed", failed)
         IN [a EXCEPT !.water = FALSE]
    ELSE IF 0 < s.times_water_detected /\ 2 * s.times_water_detected < wt
    THEN s
    ELSE LET r == light(s, "red")
             a == alert_humans(r, "water", failed)
         IN [a EXCEPT !.water = TRUE]

\* update_status, were "water" sent only when self.water was still false
update_status_edge(s, wt, failed) ==
    IF s.times_water_detected = 0
    THEN LET g == light(s, "green")
             a == IF g.water THEN alert_humans(g, "removed", failed) ELSE g
         IN [a EXCEPT !.water = FALSE]
    ELSE IF 0 < s.times_water_detected /\ 2 * s.times_water_detected < wt
    THEN s
    ELSE LET r == light(s, "red")
             a == IF r.water THEN r ELSE alert_humans(r, "water", failed)
         IN [a EXCEPT !.water = TRUE]

\* update_status, were self.water not cleared by a water-negative reply
update_status_keeps_water(s, wt, failed) ==
    IF s.times_water_detected = 0
    THEN LET g == light(s, "green")
         IN IF g.water THEN alert_humans(g, "removed", failed) ELSE g
    ELSE IF 0 < s.times_water_detected /\ 2 * s.times_water_detected < wt
    THEN s
    ELSE LET r == light(s, "red")
             a == alert_humans(r, "water", failed)
         IN [a EXCEPT !.water = TRUE]

\* update_status; x < t / 2 is written 2 * x < t
update_status(s, wt, failed) ==
    IF s.times_water_detected = 0
    THEN LET g == light(s, "green")
             a == IF g.water THEN alert_humans(g, "removed", failed) ELSE g
         IN IF a.raised THEN a ELSE [a EXCEPT !.water = FALSE]
    ELSE IF 0 < s.times_water_detected /\ 2 * s.times_water_detected < wt
    THEN s
    ELSE IF 2 * s.times_water_detected >= wt
    THEN LET r == light(s, "red")
             a == alert_humans(r, "water", failed)
         IN IF a.raised THEN a ELSE [a EXCEPT !.water = TRUE]
    ELSE s

\* parse_message, were the counters cleared before the "restored" test
parse_message_clear_first(s, message, dt, wt, failed) ==
    IF message.number = phone_number
    THEN LET c == [s EXCEPT !.missing_loops = 0,
                            !.missing_responses = 0,
                            !.awaiting_message = FALSE]
             b == IF 2 * c.missing_responses >= dt
                  THEN alert_humans(c, "restored", failed)
                  ELSE c
         IN IF message.text = water_message
            THEN update_status([b EXCEPT !.times_water_detected = @ + 1],
                               wt, failed)
            ELSE IF message.text = no_water_message
            THEN update_status([b EXCEPT !.times_water_detected = 0],
                               wt, failed)
            ELSE b
    ELSE s

\* parse_message, were the sender not compared with phone_number
parse_message_any_sender(s, message, dt, wt, failed) ==
    LET a == IF 2 * s.missing_responses >= dt
             THEN alert_humans(s, "restored", failed)
             ELSE s
        b == [a EXCEPT !.missing_loops = 0,
                       !.missing_responses = 0,
                       !.awaiting_message = FALSE]
    IN IF message.text = water_message
       THEN update_status([b EXCEPT !.times_water_detected = @ + 1],
                          wt, failed)
       ELSE IF message.text = no_water_message
       THEN update_status([b EXCEPT !.times_water_detected = 0],
                          wt, failed)
       ELSE b

\* parse_message, were the text looked at before the counters are reset
parse_message_text_first(s, message, dt, wt, failed) ==
    IF message.number = phone_number
       /\ message.text \in {water_message, no_water_message}
    THEN LET a == IF 2 * s.missing_responses >= dt
                  THEN alert_humans(s, "restored", failed)
                  ELSE s
             b == [a EXCEPT !.missing_loops = 0,
                            !.missing_responses = 0,
                            !.awaiting_message = FALSE]
         IN IF message.text = water_message
            THEN update_status([b EXCEPT !.times_water_detected = @ + 1],
                               wt, failed)
            ELSE update_status([b EXCEPT !.times_water_detected = 0],
                               wt, failed)
    ELSE s

\* parse_message, were a stranger's message counted as a missing tick
parse_message_stranger_counts(s, message, dt, wt, failed) ==
    IF message.number = phone_number
    THEN LET a == IF 2 * s.missing_responses >= dt
                  THEN alert_humans(s, "restored", failed)
                  ELSE s
             b == [a EXCEPT !.missing_loops = 0,
                            !.missing_responses = 0,
                            !.awaiting_message = FALSE]
         IN IF message.text = water_message
            THEN update_status([b EXCEPT !.times_water_detected = @ + 1],
                               wt, failed)
            ELSE IF message.text = no_water_message
            THEN update_status([b EXCEPT !.times_water_detected = 0],
                               wt, failed)
            ELSE b
    ELSE IF s.awaiting_message
    THEN [s EXCEPT !.missing_loops = @ + 1]
    ELSE s

\* parse_message
parse_message(s, message, dt, wt, failed) ==
    IF message.number = phone_number
    THEN LET a == IF 2 * s.missing_responses >= dt
                  THEN alert_humans(s, "restored", failed)
                  ELSE s
             b == [a EXCEPT !.missing_loops = 0,
                            !.missing_responses = 0,
                            !.awaiting_message = FALSE]
         IN IF a.raised
            THEN a
            ELSE IF message.text = water_message
            THEN update_status([b EXCEPT !.times_water_detected = @ + 1],
                               wt, failed)
            ELSE IF message.text = no_water_message
            THEN update_status([b EXCEPT !.times_water_detected = 0],
                               wt, failed)
            ELSE b
    ELSE s

\* request_status, were missing_loops not reset
request_status_no_reset(s, failed) ==
    LET a == send_message(s, phone_number, "request", phone_number \notin failed)
    IN [a EXCEPT !.awaiting_message = TRUE]

\* request_status, were awaiting_message not set
request_status_not_awaiting(s, failed) ==
    LET a == send_message(s, phone_number, "request", phone_number \notin failed)
    IN [a EXCEPT !.missing_loops = 0]

\* request_status
request_status(s, failed) ==
    LET a == send_message(s, phone_number, "request", phone_number \notin failed)
    IN IF a.raised
       THEN a
       ELSE [a EXCEPT !.missing_loops = 0, !.awaiting_message = TRUE]

\* the end of an outer cycle, were the alert sent on the crossing alone
cycle_end_on_crossing(s, dt, failed) ==
    LET a == IF s.missing_loops = cycle_length
             THEN [s EXCEPT !.missing_responses = @ + 1]
             ELSE s
    IN IF 2 * a.missing_responses >= dt
       THEN IF 2 * s.missing_responses >= dt
            THEN light(a, "amber")
            ELSE alert_humans(light(a, "amber"), "disconnect", failed)
       ELSE a

\* the end of an outer cycle, were the threshold compared with >
cycle_end_late(s, dt, failed) ==
    LET a == IF s.missing_loops = cycle_length
             THEN [s EXCEPT !.missing_responses = @ + 1]
             ELSE s
    IN IF 2 * a.missing_responses > dt
       THEN alert_humans(light(a, "amber"), "disconnect", failed)
       ELSE a

\* the end of an outer cycle, were a cycle counted that was silent in part
cycle_end_counts_partial(s, dt, failed) ==
    LET a == IF s.missing_loops > 0
             THEN [s EXCEPT !.missing_responses = @ + 1]
             ELSE s
    IN IF 2 * a.missing_responses >= dt
       THEN alert_humans(light(a, "amber"), "disconnect", failed)
       ELSE a

\* the end of an outer cycle, were the amber light lit without an alert
cycle_end_no_alert(s, dt, failed) ==
    LET a == IF s.missing_loops = cycle_length
             THEN [s EXCEPT !.missing_responses = @ + 1]
             ELSE s
    IN IF 2 * a.missing_responses >= dt
       THEN light(a, "amber")
       ELSE a

\* the end of an outer cycle: the two ifs after the for loop
cycle_end(s, dt, failed) ==
    LET a == IF s.missing_loops = cycle_length
             THEN [s EXCEPT !.missing_responses = @ + 1]
             ELSE s
    IN IF 2 * a.missing_responses >= dt
       THEN alert_humans(light(a, "amber"), "disconnect", failed)
       ELSE a

(* ------------------------------------------------------------------ *)
(* The state machine                                                    *)
(* ------------------------------------------------------------------ *)

\* assigns the object's fields and the step's effects from a record
Becomes(s) ==
    /\ missing_loops' = s.missing_loops
    /\ missing_responses' = s.missing_responses
    /\ awaiting_message' = s.awaiting_message
    /\ times_water_detected' = s.times_water_detected
    /\ water' = s.water
    /\ relay' = s.relay
    /\ sent' = s.sent
    /\ lit' = s.lit

\* the for loop goes on to its next tick, or the cycle ends
NextTick ==
    IF i + 1 < cycle_length
    THEN pc' = "check" /\ i' = i + 1
    ELSE pc' = "cycle_end" /\ i' = i

\* the number of water-positive replies of the sensor in a drain
RECURSIVE Positives(_)
Positives(msgs) ==
    IF msgs = <<>>
    THEN 0
    ELSE (IF Head(msgs) = [number |-> phone_number, text |-> water_message]
          THEN 1 ELSE 0) + Positives(Tail(msgs))

\* after construction: counters zero, all lights off after the lamp test.
\* missing_loops and awaiting_message are first assigned by request_status,
\* the first statement mainloop runs; nothing reads them before.
Init ==
    /\ disconnect_time \in DisconnectTimes
    /\ water_time \in WaterTimes
    /\ missing_loops = 0
    /\ awaiting_message = FALSE
    /\ missing_responses = 0
    /\ water = FALSE
    /\ times_water_detected = 0
    /\ relay = [red |-> FALSE, amber |-> FALSE, green |-> FALSE]
    /\ pc = "request"
    /\ i = 0
    /\ inbox = <<>>
    /\ sent = <<>>
    /\ lit = <<>>

\* tick 0: request_status, then the sleep
RequestStatus ==
    /\ pc = "request"
    /\ \E failed \in SUBSET {phone_number} :
          Becomes(request_status(Self, failed))
    /\ pc' = "check"
    /\ i' = 0
    /\ UNCHANGED <<disconnect_time, water_time, inbox>>

\* check_for_answer, listStoredSms returns nothing
CheckEmpty ==
    /\ pc = "check"
    /\ Becomes(IF awaiting_message
               THEN [Self EXCEPT !.missing_loops = @ + 1]
               ELSE Self)
    /\ NextTick
    /\ UNCHANGED <<disconnect_time, water_time, inbox>>

\* check_for_answer, listStoredSms raises: logged, messages = []
CheckFailed ==
    /\ pc = "check"
    /\ LET h == exception_handler(Self)
       IN Becomes(IF awaiting_message
                  THEN [h EXCEPT !.missing_loops = @ + 1]
                  ELSE h)
    /\ NextTick
    /\ UNCHANGED <<disconnect_time, water_time, inbox>>

\* check_for_answer, listStoredSms returns messages: the for loop starts
CheckMessages ==
    /\ pc = "check"
    /\ \E msgs \in Drains :
          /\ times_water_detected + Positives(msgs) <= MaxStreak
          /\ inbox' = msgs
    /\ Becomes(Self)
    /\ pc' = "parse"
    /\ UNCHANGED <<disconnect_time, water_time, i>>

\* one iteration of check_for_answer's for loop: parse_message
ParseMessage ==
    /\ pc = "parse"
    /\ inbox # <<>>
    /\ \E failed \in SUBSET Operators :
          Becomes(parse_message(Self, Head(inbox), disconnect_time,
                                water_time, failed))
    /\ inbox' = Tail(inbox)
    /\ IF Tail(inbox) = <<>>
       THEN NextTick
       ELSE UNCHANGED <<pc, i>>
    /\ UNCHANGED <<disconnect_time, water_time>>

\* after the for loop: count the silent cycle, signal the disconnect
CycleEnd ==
    /\ pc = "cycle_end"
    /\ missing_loops = cycle_length => missing_responses < MaxMissing
    /\ \E failed \in SUBSET Operators :
          Becomes(cycle_end(Self, disconnect_time, failed))
    /\ pc' = "request"
    /\ i' = 0
    /\ UNCHANGED <<disconnect_time, water_time, inbox>>

Next ==
    \/ RequestStatus
    \/ CheckEmpty
    \/ CheckFailed
    \/ CheckMessages
    \/ ParseMessage
    \/ CycleEnd

Spec == Init /\ [][Next]_vars

(* ------------------------------------------------------------------ *)
(* Vocabulary of the properties                                         *)
(* ------------------------------------------------------------------ *)

\* how many messages about event the step sent to number
RECURSIVE Count(_, _, _)
Count(log, number, event) ==
    IF log = <<>>
    THEN 0
    ELSE (IF Head(log)[1] = number /\ Head(log)[2] = event THEN 1 ELSE 0)
         + Count(Tail(log), number, event)

\* the step alerted every operator exactly once about event
AlertedEach(log, event) == \A n \in Operators : Count(log, n, event) = 1
\* the step alerted nobody about event
AlertedNone(log, event) == \A n \in Operators : Count(log, n, event) = 0

\* the step called light(l)
Lit(calls, l) == \E k \in DOMAIN calls : calls[k] = l

\* missing_responses has reached disconnect_time / 2
Disconnected == 2 * missing_responses >= disconnect_time

\* the step about to be taken parses a message of the sensor
ParsingReply == pc = "parse" /\ inbox # <<>> /\ Head(inbox).number = phone_number
ParsingText(t) == ParsingReply /\ Head(inbox).text = t
ParsingStranger == pc = "parse" /\ inbox # <<>> /\ Head(inbox).number # phone_number

(* ------------------------------------------------------------------ *)
(* C1                                                                   *)
(* ------------------------------------------------------------------ *)

C2_DisconnectAtThreshold ==
    [][/\ pc = "cycle_end" =>
            /\ missing_responses' = missing_responses
                  + (IF missing_loops = cycle_length THEN 1 ELSE 0)
            /\ 2 * missing_responses' >= disconnect_time =>
                  /\ Lit(lit', "amber")
                  /\ relay'["amber"]
                  /\ AlertedEach(sent', "disconnect")
       /\ pc # "cycle_end" => missing_responses' \in {0, missing_responses}
       /\ 2 * missing_responses' < disconnect_time =>
            /\ ~Lit(lit', "amber")
            /\ AlertedNone(sent', "disconnect")]_vars

\* the fifth silent cycle in a row with disconnect_time = 10
C2_Witness ==
    /\ disconnect_time = 10
    /\ missing_responses = 5
    /\ pc = "request"
    /\ lit = <<"amber">>
    /\ relay["amber"]
    /\ AlertedEach(sent, "disconnect")

(* ------------------------------------------------------------------ *)
(* C3                                                                   *)
(* ------------------------------------------------------------------ *)

\* C3: while the streak of water-positive replies is below water_time / 2
\* the red light is off, water is false and no step calls light("red") or
\* sends a "water" alert; the reply that takes the streak from below the
\* threshold to it turns red on and green off and sends one "water" alert
\* to each operator.
C3_WaterAtThreshold ==
    /\ (2 * times_water_detected < water_time => ~relay["red"] /\ ~water)
    /\ [][/\ 2 * times_water_detected' < water_time' =>
               /\ ~relay'["red"]
               /\ ~water'
               /\ ~Lit(lit', "red")
               /\ AlertedNone(sent', "water")
          /\ (/\ ParsingText(water_message)
              /\ 2 * times_water_detected < water_time
              /\ 2 * (times_water_detected + 1) >= water_time) =>
               /\ times_water_detected' = times_water_detected + 1
               /\ relay'["red"]
               /\ ~relay'["green"]
               /\ water'
               /\ AlertedEach(sent', "water")]_vars

\* the second positive reply with water_time = 4 has just been parsed
C3_Witness ==
    /\ water_time = 4
    /\ times_water_detected = 2
    /\ lit = <<"red">>
    /\ relay["red"]
    /\ AlertedEach(sent, "water")

(* ------------------------------------------------------------------ *)
(* C4                                                                   *)
(* ------------------------------------------------------------------ *)

NORMAL == [red |-> FALSE, amber |-> FALSE, green |-> TRUE]

\* C4: parsing a water-negative reply of the sensor sets the streak to 0 and
\* the lights to green only; if water was true it sends one "removed" alert
\* to each operator and clears water, and if not it sends none.
C4_NegativeReply ==
    [][ParsingText(no_water_message) =>
          /\ times_water_detected' = 0
          /\ relay' = NORMAL
          /\ water' = FALSE
          /\ IF water
             THEN AlertedEach(sent', "removed")
             ELSE AlertedNone(sent', "removed")]_vars

\* a negative reply has just ended a confirmed water state
C4_Witness ==
    /\ AlertedEach(sent, "removed")
    /\ times_water_detected = 0
    /\ ~water
    /\ relay = NORMAL

(* ------------------------------------------------------------------ *)
(* C5                                                                   *)
(* ------------------------------------------------------------------ *)

\* C5: a reply of the sensor parsed while missing_responses is at or above
\* disconnect_time / 2 sends one "restored" alert to each operator, decided
\* on the counters as they were before the reply cleared them; the reply
\* leaves missing_loops and missing_responses at 0, and every other step
\* (a later reply of the same drain included) sends no "restored" alert.
C5_RestoredOnce ==
    [][/\ ParsingReply =>
            /\ missing_loops' = 0
            /\ missing_responses' = 0
       /\ IF ParsingReply /\ Disconnected
          THEN /\ AlertedEach(sent', "restored")
               /\ \A k \in 1..Len(alert_numbers) : sent'[k][2] = "restored"
          ELSE AlertedNone(sent', "restored")]_vars

\* the first reply of a drain has restored the connection and a further
\* reply of the sensor waits in the same drain
C5_Witness ==
    /\ AlertedEach(sent, "restored")
    /\ missing_responses = 0
    /\ missing_loops = 0
    /\ ParsingReply

(* ------------------------------------------------------------------ *)
(* C6                                                                   *)
(* ------------------------------------------------------------------ *)

\* C6 as stated: while water is true no reply sends a further "water" alert.
C6_WaterAlertOnce ==
    [][water => AlertedNone(sent', "water")]_vars

\* C6 amended: the "water" alert is sent, once to each operator, by every
\* water-positive reply of the sensor that leaves the streak at or above
\* water_time / 2, the first such reply and each later one while water stays
\* true, and by no other step.
C6_WaterAlertEveryReply ==
    [][IF ParsingText(water_message)
          /\ 2 * (times_water_detected + 1) >= water_time
       THEN AlertedEach(sent', "water") /\ water'
       ELSE AlertedNone(sent', "water")]_vars

\* a positive reply past the threshold has alerted the operators again
C6_Witness ==
    /\ 2 * times_water_detected >= water_time + 2
    /\ water
    /\ AlertedEach(sent, "water")

(* ------------------------------------------------------------------ *)
(* C7                                                                   *)
(* ------------------------------------------------------------------ *)

\* C7: parsing a message whose sender is not phone_number changes none of
\* missing_loops, missing_responses, times_water_detected, awaiting_message,
\* water or the relays, calls no light and sends nothing.
C7_StrangerIgnored ==
    [][ParsingStranger =>
          /\ UNCHANGED <<missing_loops, missing_responses, times_water_detected,
                         awaiting_message, water, relay>>
          /\ sent' = <<>>
          /\ lit' = <<>>]_vars

\* a stranger's message is about to be parsed in a state where parsing the
\* sensor's message would restore the connection and alert
C7_Witness ==
    /\ ParsingStranger
    /\ Disconnected
    /\ awaiting_message
    /\ missing_loops > 0
    /\ water

(* ------------------------------------------------------------------ *)
(* C8                                                                   *)
(* ------------------------------------------------------------------ *)

\* C8: missing_loops stays within 0..cycle_length, and is 0 right after a
\* reply of the sensor has been parsed.
C8_MissingLoopsRange ==
    /\ [](missing_loops \in 0..cycle_length)
    /\ [][ParsingReply => missing_loops' = 0]_vars

\* a whole cycle without a message: missing_loops has reached cycle_length
C8_Witness ==
    /\ pc = "cycle_end"
    /\ missing_loops = cycle_length
    /\ missing_responses > 0

(* ------------------------------------------------------------------ *)
(* C9                                                                   *)
(* ------------------------------------------------------------------ *)

\* C9 as stated: between ticks the amber light is lit exactly when
\* missing_responses has reached disconnect_time / 2 (lost signal is shown
\* whenever the connection is down and never while it is up).
C9_IndicatorFunction ==
    pc # "parse" => (relay["amber"] <=> Disconnected)

(* ------------------------------------------------------------------ *)
(* C10                                                                  *)
(* ------------------------------------------------------------------ *)

StartDisconnectTimes == DisconnectTimes \cup {3}
StartWaterTimes == WaterTimes \cup {3}

\* the two threshold tests of __init__; both read self.disconnect_time
validate(dt, wt) ==
    IF dt % 2 # 0
    THEN "config_error"
    ELSE IF dt % 2 # 0
    THEN "config_error"
    ELSE "connect"

\* self.relay_board exists once __init__ has passed the connect loop
relay_board_assigned == pc \notin {"validate", "connect"}

\* before construction: the thresholds as passed, the relays as found
InitStart ==
    /\ disconnect_time \in StartDisconnectTimes
    /\ water_time \in StartWaterTimes
    /\ missing_loops = 0
    /\ awaiting_message = FALSE
    /\ missing_responses = 0
    /\ water = FALSE
    /\ times_water_detected = 0
    /\ relay \in [{"red", "amber", "green"} -> BOOLEAN]
    /\ pc = "validate"
    /\ i = 0
    /\ inbox = <<>>
    /\ sent = <<>>
    /\ lit = <<>>

\* the threshold tests: a ValueError leaves __init__
Validate ==
    /\ pc = "validate"
    /\ pc' = validate(disconnect_time, water_time)
    /\ UNCHANGED <<disconnect_time, water_time, missing_loops,
                   missing_responses, awaiting_message, times_water_detected,
                   water, relay, i, inbox, sent, lit>>

\* the connect loop, modem.connect() returns
ConnectOk ==
    /\ pc = "connect"
    /\ pc' = "relay_setup"
    /\ UNCHANGED <<disconnect_time, water_time, missing_loops,
                   missing_responses, awaiting_message, times_water_detected,
                   water, relay, i, inbox, sent, lit>>

\* the connect loop, GsmModem() or connect() raises: the except clause calls
\* exception_handler, whose first relay statement reads self.relay_board;
\* while that attribute is missing the AttributeError leaves __init__
ConnectFail ==
    /\ pc = "connect"
    /\ pc' = IF relay_board_assigned THEN "connect" ELSE "init_raised"
    /\ UNCHANGED <<disconnect_time, water_time, missing_loops,
                   missing_responses, awaiting_message, times_water_detected,
                   water, relay, i, inbox, sent, lit>>

\* the relay board, the counters and the lamp test; mainloop is called next
RelaySetup ==
    /\ pc = "relay_setup"
    /\ missing_responses' = 0
    /\ water' = FALSE
    /\ times_water_detected' = 0
    /\ relay' = relay_off(relay_on(
                  relay_off(relay_on(
                    relay_off(relay_on(Self, "red"), "red"),
                    "amber"), "amber"),
                  "green"), "green").relay
    /\ pc' = "request"
    /\ UNCHANGED <<disconnect_time, water_time, missing_loops,
                   awaiting_message, i, inbox, sent, lit>>

NextStart ==
    \/ Validate
    \/ ConnectOk
    \/ ConnectFail
    \/ RelaySetup
    \/ Next

SpecStart == InitStart /\ [][NextStart]_vars

(* ------------------------------------------------------------------ *)
(* C11                                                                  *)
(* ------------------------------------------------------------------ *)

\* C11 as stated: a step of the connect loop either stays in the loop (a
\* failed connect is retried) or goes on to the relay-board setup; a connect
\* failure never ends the construction.
C11_ConnectRetried ==
    [][pc = "connect" => pc' \in {"connect", "relay_setup"}]_vars

(* ------------------------------------------------------------------ *)
(* C12                                                                  *)
(* ------------------------------------------------------------------ *)

\* C12 as stated: with an odd disconnect_time or an odd water_time the
\* construction gets no further than the threshold tests.
C12_OddRejected ==
    (disconnect_time % 2 # 0 \/ water_time % 2 # 0) =>
        pc \in {"validate", "config_error"}

(* ------------------------------------------------------------------ *)
(* A relay board whose calls can raise, and mainloop's finally block    *)
(* ------------------------------------------------------------------ *)

\* the relay call of a step that raises is one of its first MaxFault calls
MaxFault == 6

\* the object at the start of a step whose k-th relay call raises
WithFault(k) == [Self EXCEPT !.fault = k]

ALL_OFF == [red |-> FALSE, amber |-> FALSE, green |-> FALSE]

\* request_status: sendSms fails and a relay call of exception_handler
\* raises inside send_message's except clause; nothing catches it, the
\* assignments of request_status are skipped and mainloop's finally runs
RequestStatusRaises ==
    /\ pc = "request"
    /\ \E failed \in SUBSET {phone_number}, k \in 1..MaxFault :
          LET r == request_status(WithFault(k), failed)
          IN r.raised /\ Becomes(r)
    /\ pc' = "cleanup"
    /\ UNCHANGED <<disconnect_time, water_time, i, inbox>>

\* check_for_answer: listStoredSms raises and a relay call of
\* exception_handler raises inside the except clause
CheckFailedRaises ==
    /\ pc = "check"
    /\ \E k \in 1..MaxFault :
          LET r == exception_handler(WithFault(k))
          IN r.raised /\ Becomes(r)
    /\ pc' = "cleanup"
    /\ UNCHANGED <<disconnect_time, water_time, i, inbox>>

\* parse_message: a relay call of light or of exception_handler raises;
\* the exception leaves check_for_answer's for loop and mainloop's loops
ParseMessageRaises ==
    /\ pc = "parse"
    /\ inbox # <<>>
    /\ \E failed \in SUBSET Operators, k \in 1..MaxFault :
          LET r == parse_message(WithFault(k), Head(inbox), disconnect_time,
                                 water_time, failed)
          IN r.raised /\ Becomes(r)
    /\ inbox' = <<>>
    /\ pc' = "cleanup"
    /\ UNCHANGED <<disconnect_time, water_time, i>>

\* the end of an outer cycle: a relay call of light("amber") or of
\* exception_handler raises
CycleEndRaises ==
    /\ pc = "cycle_end"
    /\ missing_loops = cycle_length => missing_responses < MaxMissing
    /\ \E failed \in SUBSET Operators, k \in 1..MaxFault :
          LET r == cycle_end(WithFault(k), disconnect_time, failed)
          IN r.raised /\ Becomes(r)
    /\ pc' = "cleanup"
    /\ UNCHANGED <<disconnect_time, water_time, i, inbox>>

\* finally: relay_board.all_off() returns
AllOffOk ==
    /\ pc = "cleanup"
    /\ relay' = ALL_OFF
    /\ pc' = "close"
    /\ sent' = <<>>
    /\ lit' = <<>>
    /\ UNCHANGED <<disconnect_time, water_time, missing_loops,
                   missing_responses, awaiting_message, times_water_detected,
                   water, i, inbox>>

\* finally: relay_board.all_off() raises; the statement after it,
\* modem.close(), is not reached
AllOffRaises ==
    /\ pc = "cleanup"
    /\ pc' = "cleanup_raised"
    /\ sent' = <<>>
    /\ lit' = <<>>
    /\ UNCHANGED <<disconnect_time, water_time, missing_loops,
                   missing_responses, awaiting_message, times_water_detected,
                   water, relay, i, inbox>>

\* finally: modem.close()
Close ==
    /\ pc = "close"
    /\ pc' = "exited"
    /\ UNCHANGED <<disconnect_time, water_time, missing_loops,
                   missing_responses, awaiting_message, times_water_detected,
                   water, relay, i, inbox, sent, lit>>

NextFault ==
    \/ Next
    \/ RequestStatusRaises
    \/ CheckFailedRaises
    \/ ParseMessageRaises
    \/ CycleEndRaises
    \/ AllOffOk
    \/ AllOffRaises
    \/ Close

SpecFault == Init /\ [][NextFault]_vars

\* mainloop is inside its while loop
InLoop == pc \in {"request", "check", "parse", "cycle_end"}
\* modem.close() has been called
modem_closed == pc = "exited"

(* ------------------------------------------------------------------ *)
(* C13                                                                  *)
(* ------------------------------------------------------------------ *)

\* C13 as stated: whenever mainloop has been left and its finally block is
\* over, all relay outputs are off and the modem has been closed, also when
\* relay_board.all_off() failed.
C13_CleanupComplete ==
    pc \in {"exited", "cleanup_raised"} => modem_closed /\ relay = ALL_OFF

(* ------------------------------------------------------------------ *)
(* C14                                                                  *)
(* ------------------------------------------------------------------ *)

\* C14 as stated: a failing relay call, in light() or in exception_handler,
\* does not take mainloop out of its loop (relay calls are the only calls
\* that raise uncaught here).
C14_LoopSurvivesRelayFault == InLoop

(* ------------------------------------------------------------------ *)
(* C15                                                                  *)
(* ------------------------------------------------------------------ *)

\* C15 as stated: parsing a reply of the sensor whose text is neither
\* water_message nor no_water_message changes none of missing_loops,
\* missing_responses, awaiting_message, times_water_detected, water or the
\* relays and sends nothing.
C15_UnknownTextIgnored ==
    [][ParsingText(unknown_text) =>
          /\ UNCHANGED <<missing_loops, missing_responses, awaiting_message,
                         times_water_detected, water, relay>>
          /\ sent' = <<>>]_vars

\* C15 amended: such a reply leaves times_water_detected, water and the
\* relays as they were, calls no light and sends no "water", "removed" or
\* "disconnect" alert; as a reply of the sensor it still sets missing_loops
\* and missing_responses to 0 and awaiting_message to false, and it sends
\* one "restored" alert to each operator, and nothing else, if
\* missing_responses had reached disconnect_time / 2.
C15_UnknownTextResetsCounters ==
    [][ParsingText(unknown_text) =>
          /\ UNCHANGED <<times_water_detected, water, relay>>
          /\ lit' = <<>>
          /\ missing_loops' = 0
          /\ missing_responses' = 0
          /\ awaiting_message' = FALSE
          /\ IF Disconnected
             THEN /\ AlertedEach(sent', "restored")
                  /\ Len(sent') = Len(alert_numbers)
             ELSE sent' = <<>>]_vars

\* a reply with an unknown text is about to be parsed after a disconnect,
\* with counters that the reply will reset
C15_Witness ==
    /\ ParsingText(unknown_text)
    /\ Disconnected
    /\ awaiting_message
    /\ missing_loops > 0

(* ------------------------------------------------------------------ *)
(* C16                                                                  *)
(* ------------------------------------------------------------------ *)

\* a drain is over: the step ends check_for_answer
EndsDrain == pc \in {"check", "parse"} /\ pc' \in {"check", "cycle_end"}

\* C16: the request is sent once, by the step at tick 0 that starts an outer
\* cycle, and by no other step; that step leaves awaiting_message true and
\* missing_loops 0 and is followed by the first drain; twelve drains (ticks
\* 0 to 11) follow before the cycle ends and the next request is sent. A
\* failing sendSms changes none of this.
C16_OneRequestPerCycle ==
    /\ [](i \in 0..(cycle_length - 1) /\ (pc = "request" => i = 0))
    /\ [][/\ Count(sent', phone_number, "request")
               = (IF pc = "request" THEN 1 ELSE 0)
          /\ pc = "request" =>
               /\ awaiting_message'
               /\ missing_loops' = 0
               /\ pc' = "check"
               /\ i' = 0
          /\ pc \in {"check", "parse"} =>
               /\ pc' # "request"
               /\ i' = (IF EndsDrain /\ pc' = "check" THEN i + 1 ELSE i)
               /\ pc' = "cycle_end" => i = cycle_length - 1
          /\ pc = "cycle_end" => pc' = "request"]_vars

\* the request of a later cycle has just been sent and sendSms failed
C16_Witness ==
    /\ sent = <<<<phone_number, "request", FALSE>>>>
    /\ pc = "check"
    /\ i = 0
    /\ awaiting_message
    /\ missing_loops = 0
    /\ missing_responses > 0

(* ------------------------------------------------------------------ *)
(* C17                                                                  *)
(* ------------------------------------------------------------------ *)

\* C17: missing_responses changes in two ways only: a cycle end adds 1 if
\* missing_loops = 12 and leaves it as it is otherwise, and parsing a reply
\* of the sensor sets it to 0; every other step leaves it unchanged.
C17_MissingCyclesChanges ==
    [][missing_responses' =
          (IF pc = "cycle_end"
           THEN (IF missing_loops = cycle_length
                 THEN missing_responses + 1
                 ELSE missing_responses)
           ELSE IF ParsingReply
           THEN 0
           ELSE missing_responses)]_vars

\* a cycle that was silent only in part has ended and left the count of an
\* earlier silent cycle as it was
C17_Witness ==
    /\ pc = "request"
    /\ missing_loops > 0
    /\ missing_loops < cycle_length
    /\ missing_responses > 0
    /\ awaiting_message

(* ------------------------------------------------------------------ *)
(* C18                                                                  *)
(* ------------------------------------------------------------------ *)

\* C18: with an even water_time >= 2, water is true exactly when
\* times_water_detected has reached water_time / 2, initially and after
\* every parsed reply.
C18_WetIffStreak ==
    (water_time % 2 = 0 /\ water_time >= 2) =>
        (water <=> 2 * times_water_detected >= water_time)

\* the second positive reply with water_time = 4 has made water true
C18_Witness ==
    /\ water_time = 4
    /\ times_water_detected = 2
    /\ water
    /\ AlertedEach(sent, "water")

(* ------------------------------------------------------------------ *)
(* C19                                                                  *)
(* ------------------------------------------------------------------ *)

\* C19: a "restored" alert is sent only by a step that starts with
\* missing_responses at or above disconnect_time / 2 and that resets it;
\* missing_responses is below the threshold initially, and every step that
\* takes it from below the threshold to it sends the "disconnect" alert to
\* each operator. So a "disconnect" alert lies between the start, or the
\* previous "restored" alert, and every "restored" alert.
C19_RestoredAfterDisconnect ==
    /\ ~Disconnected
    /\ [][/\ ~AlertedNone(sent', "restored") =>
               Disconnected /\ ~Disconnected'
          /\ (~Disconnected /\ Disconnected') =>
               AlertedEach(sent', "disconnect")]_vars

\* a reply has just restored a connection whose loss had lit the amber light
C19_Witness ==
    /\ AlertedEach(sent, "restored")
    /\ ~Disconnected
    /\ relay["amber"]

(* ------------------------------------------------------------------ *)
(* C20                                                                  *)
(* ------------------------------------------------------------------ *)

\* the drains of the current outer cycle that have returned
DrainsDone ==
    CASE pc = "check" -> i
      [] pc = "parse" -> i + 1
      [] pc = "cycle_end" -> cycle_length
      [] OTHER -> 0

\* missing_loops has counted every drain of the cycle so far
SilentSoFar == pc # "request" /\ missing_loops = DrainsDone

\* C20: missing_loops counts the drains of the cycle as long as every one
\* of them came back without a message: the request starts the count, a
\* drain that returns nothing (or fails) keeps it going if it was going, a
\* drain that returns a message, whoever sent it, ends it for the rest of
\* the cycle; so missing_loops = 12 at the cycle end exactly when all twelve
\* drains returned nothing, and only then is the cycle counted.
C20_SilentCycleIffNoMessage ==
    /\ [](pc # "request" => missing_loops <= DrainsDone)
    /\ [][/\ pc = "request" => SilentSoFar'
          /\ (pc = "check" /\ pc' # "parse") => (SilentSoFar' <=> SilentSoFar)
          /\ (pc = "parse" \/ pc' = "parse") => ~SilentSoFar'
          /\ pc = "cycle_end" =>
               /\ SilentSoFar <=> missing_loops = cycle_length
               /\ missing_responses' = missing_responses + 1 <=> SilentSoFar]_vars

\* a cycle whose only message came from a stranger ends with 11 missing ticks
C20_Witness ==
    /\ pc = "cycle_end"
    /\ missing_loops = cycle_length - 1
    /\ awaiting_message
    /\ missing_responses > 0

====
